---- MODULE Spec2Model ----
(***************************************************************************)
(* Model of script.js, the client-side logic of the Uttar Pradesh news     *)
(* dashboard: one asynchronous load of data/news.json, then filtering,     *)
(* paging and rendering driven by DOM events.                              *)
(*                                                                         *)
(* Text is a sequence of UTF-16 code units, so that JavaScript's string    *)
(* comparison, startsWith, parseInt and toISOString are computed and not   *)
(* assumed.  Instants are minutes since 2024-03-01T00:00Z and stay inside  *)
(* March 2024.  Of a story only title, pubDate, category and district are  *)
(* kept; link, source and summary are only copied into the card markup.    *)
(***************************************************************************)
EXTENDS Integers, Sequences, FiniteSets, TLC

(* ---------------- bounds of the model ---------------- *)
\* longest payload enumerated story by story
MaxLen == 2
\* length of the one long payload (the 125-story example of the paginator)
BulkLen == 125
\* number of times the system clock advances
MaxTicks == 1

(* ---------------- constants of the program ---------------- *)
DefaultItemsPerPage == 50
TodayLimit == 50

MinutesPerDay == 24 * 60
ClockStart == 9 * MinutesPerDay + 20 * 60
ClockStep == 6 * 60

(* ---------------- text ---------------- *)
Empty == << >>
AllText == <<65, 108, 108>>
GovernanceText == <<71, 111, 118, 101, 114, 110, 97, 110, 99, 101, 32, 105, 115, 115, 117, 101, 115>>
NDAText == <<78, 68, 65, 32, 65, 99, 116, 105, 118, 105, 116, 121>>
LucknowText == <<76, 117, 99, 107, 110, 111, 119>>
KanpurText == <<75, 97, 110, 112, 117, 114>>
YearMonthText == <<50, 48, 50, 52, 45, 48, 51, 45>>
FiftyText == <<53, 48>>
TwentyFiveText == <<50, 53>>
ZeroText == <<48>>
MinusFiveText == <<45, 53>>
AbcText == <<97, 98, 99>>

Min(a, b) == IF a <= b THEN a ELSE b
Max(a, b) == IF a >= b THEN a ELSE b
Range(f) == {f[i] : i \in DOMAIN f}

\* a < b on JavaScript strings: code-unit lexicographic order
StrLess(a, b) ==
  LET m == Min(Len(a), Len(b))
      differ == {i \in 1..m : a[i] # b[i]}
      first == CHOOSE i \in differ : \A j \in differ : i <= j
  IN IF differ = {} THEN Len(a) < Len(b) ELSE a[first] < b[first]

\* a >= b on JavaScript strings
StrGeq(a, b) == ~StrLess(a, b)

\* String.prototype.startsWith
StartsWith(s, p) == Len(p) <= Len(s) /\ SubSeq(s, 1, Len(p)) = p

IsDigit(c) == c >= 48 /\ c <= 57
IsSpace(c) == c \in {9, 10, 11, 12, 13, 32}

RECURSIVE DecText(_)
\* decimal digits of a natural number
DecText(n) == IF n < 10 THEN <<48 + n>> ELSE DecText(n \div 10) \o <<48 + (n % 10)>>

\* zero padded to two digits, as in the fields of an ISO date
TwoDigits(n) == IF n < 10 THEN <<48>> \o DecText(n) ELSE DecText(n)

RECURSIVE SkipSpace(_)
SkipSpace(t) == IF t # Empty /\ IsSpace(Head(t)) THEN SkipSpace(Tail(t)) ELSE t

RECURSIVE DigitRun(_, _, _)
\* value and length of the longest prefix of decimal digits
DigitRun(t, acc, n) ==
  IF t # Empty /\ IsDigit(Head(t))
    THEN DigitRun(Tail(t), acc * 10 + (Head(t) - 48), n + 1)
    ELSE [val |-> acc, len |-> n]

NaN == [nan |-> TRUE, val |-> 0]

\* parseInt(text, 10)
ParseInt(text) ==
  LET t == SkipSpace(text)
      neg == t # Empty /\ Head(t) = 45
      signed == t # Empty /\ Head(t) \in {43, 45}
      run == DigitRun(IF signed THEN Tail(t) ELSE t, 0, 0)
  IN IF run.len = 0 THEN NaN
     ELSE [nan |-> FALSE, val |-> IF neg THEN 0 - run.val ELSE run.val]

\* parseInt(value, 10) || 50
ParseItemsPerPage(text) ==
  LET r == ParseInt(text)
  IN IF r.nan \/ r.val = 0 THEN DefaultItemsPerPage ELSE r.val

(* ---------------- dates and time zones ---------------- *)
\* a zone has offset std (minutes east of UTC) before the instant at, dst from it on
Kolkata == [std |-> 330, dst |-> 330, at |-> 0]
NewYork == [std |-> 0 - 300, dst |-> 0 - 240, at |-> 9 * MinutesPerDay + 7 * 60]
Zones == {Kolkata, NewYork}

Offset(zone, t) == IF t < zone.at THEN zone.std ELSE zone.dst

\* local wall-clock reading of an instant
LocalTime(zone, t) == t + Offset(zone, t)

\* instant of a local wall-clock reading; a reading that is skipped or
\* repeated at the transition is read with the offset before the transition
UTCOf(zone, wall) ==
  IF wall - zone.std < zone.at THEN wall - zone.std
  ELSE IF wall - zone.dst >= zone.at THEN wall - zone.dst
  ELSE wall - zone.std

\* date.toISOString().split('T')[0]
ISODate(t) == YearMonthText \o TwoDigits((t \div MinutesPerDay) + 1)

\* new Date("YYYY-MM-DD"): midnight UTC of that date
ParseDate(text) ==
  (((text[9] - 48) * 10 + (text[10] - 48)) - 1) * MinutesPerDay

\* end.setDate(end.getDate() + 1): one local calendar day later, same local time
SetDatePlusOne(zone, t) == UTCOf(zone, LocalTime(zone, t) + MinutesPerDay)

\* isoNext of applyFilters
IsoNext(endDate, zone) == ISODate(SetDatePlusOne(zone, ParseDate(endDate)))

\* new Date().toISOString().split('T')[0]
TodayStr(clock) == ISODate(clock)

(* ---------------- stories ---------------- *)
\* pubDate text "2024-03-DDTHH:MM"
PubDate(day, hour, minute) ==
  YearMonthText \o TwoDigits(day) \o <<84>> \o TwoDigits(hour) \o <<58>> \o TwoDigits(minute)

Story(title, pubDate, category, district) ==
  [title |-> title, pubDate |-> pubDate, category |-> category, district |-> district]

\* the stories short payloads are made of; the last has no category and no district
StoryPool ==
  { Story(<<65>>, PubDate(9, 20, 15), GovernanceText, LucknowText),
    Story(<<66>>, PubDate(10, 9, 0), GovernanceText, KanpurText),
    Story(<<67>>, PubDate(11, 2, 0), Empty, Empty) }

\* the i-th story of the long payload
BulkStory(i) ==
  Story(<<83>> \o DecText(i),
        PubDate(IF i % 5 = 0 THEN 11 ELSE IF i % 5 = 1 THEN 9 ELSE 10, i % 24, 0),
        IF i % 2 = 0 THEN GovernanceText ELSE NDAText,
        IF i % 3 = 0 THEN LucknowText ELSE IF i % 3 = 1 THEN KanpurText ELSE Empty)

BulkPayload == [i \in 1..BulkLen |-> BulkStory(i)]

\* JSON documents that are a sequence of story records
Payloads ==
  UNION {[1..n -> StoryPool] : n \in 0..MaxLen} \cup {BulkPayload}

\* a null entry of the JSON sequence
NullRecord == [null |-> TRUE]

\* JSON documents that parse but hold a null record
NullPayloads == {<<NullRecord>>} \cup {<<s, NullRecord>> : s \in StoryPool}

\* a JSON number where text is expected; no code unit is negative
JsonNumber(n) == <<0 - 1, n>>

\* typeof v === 'string'
IsText(v) == \A i \in DOMAIN v : v[i] >= 0

\* truthiness of a text or number value
Truthy(v) == IF IsText(v) THEN v # Empty ELSE v[2] # 0

\* a record whose category is the number 5
MalformedStory == Story(<<77>>, PubDate(10, 12, 0), JsonNumber(5), LucknowText)

\* JSON documents that are a sequence of records, one with a category that is not text
MalformedPayloads == {<<MalformedStory>>} \cup {<<s, MalformedStory>> : s \in StoryPool}

CategoryOptions == {AllText, GovernanceText, NDAText}
ItemsTexts == {FiftyText, TwentyFiveText, ZeroText, MinusFiveText, AbcText}
DateTexts == {Empty, ISODate(9 * MinutesPerDay)}

(* ---------------- Filter Engine ---------------- *)
\* the comparison of the start-date predicate turned around
StartKeepsReversed(s, startDate) == StrGeq(startDate, s.pubDate)

\* s.pubDate >= startDate
StartKeeps(s, startDate) == StrGeq(s.pubDate, startDate)

\* s.pubDate < isoNext
EndKeeps(s, isoNext) == StrLess(s.pubDate, isoNext)

\* s.category === category
CategoryKeeps(s, category) == s.category = category

\* s.district === district
DistrictKeeps(s, district) == s.district = district

\* the district predicate applied to the full collection instead of to the
\* stories the earlier predicates kept
FilteredDistrictOverAll(all, startDate, endDate, category, district, zone) ==
  LET KeepStart(s) == StartKeeps(s, startDate)
      f1 == IF startDate # Empty THEN SelectSeq(all, KeepStart) ELSE all
      isoNext == IsoNext(endDate, zone)
      KeepEnd(s) == EndKeeps(s, isoNext)
      f2 == IF endDate # Empty THEN SelectSeq(f1, KeepEnd) ELSE f1
      KeepCategory(s) == CategoryKeeps(s, category)
      f3 == IF category # Empty /\ category # AllText THEN SelectSeq(f2, KeepCategory) ELSE f2
      KeepDistrict(s) == DistrictKeeps(s, district)
      f4 == IF district # Empty /\ district # AllText THEN SelectSeq(all, KeepDistrict) ELSE f3
  IN f4

\* the value applyFilters assigns to filteredStories
Filtered(all, startDate, endDate, category, district, zone) ==
  LET KeepStart(s) == StartKeeps(s, startDate)
      f1 == IF startDate # Empty THEN SelectSeq(all, KeepStart) ELSE all
      isoNext == IsoNext(endDate, zone)
      KeepEnd(s) == EndKeeps(s, isoNext)
      f2 == IF endDate # Empty THEN SelectSeq(f1, KeepEnd) ELSE f1
      KeepCategory(s) == CategoryKeeps(s, category)
      f3 == IF category # Empty /\ category # AllText THEN SelectSeq(f2, KeepCategory) ELSE f2
      KeepDistrict(s) == DistrictKeeps(s, district)
      f4 == IF district # Empty /\ district # AllText THEN SelectSeq(f3, KeepDistrict) ELSE f3
  IN f4

\* today's stories in reverse order of the collection
TodayStoriesNewestFirst(all, clock) ==
  LET todayStr == TodayStr(clock)
      IsToday(s) == StartsWith(s.pubDate, todayStr)
      found == SelectSeq(all, IsToday)
  IN [i \in 1..Len(found) |-> found[Len(found) + 1 - i]]

\* todayStories of the Today handler, before the cap
TodayStories(all, clock) ==
  LET todayStr == TodayStr(clock)
      IsToday(s) == StartsWith(s.pubDate, todayStr)
  IN SelectSeq(all, IsToday)

(* ---------------- Paginator ---------------- *)
\* Array.prototype.slice(from, to)
Slice(s, from, to) ==
  LET n == Len(s)
      a == IF from < 0 THEN Max(n + from, 0) ELSE Min(from, n)
      b == IF to < 0 THEN Max(n + to, 0) ELSE Min(to, n)
  IN IF a >= b THEN << >> ELSE SubSeq(s, a + 1, b)

\* the page taken as a 0-based index
PageItemsOffByOne(list, page, perPage) ==
  LET startIndex == page * perPage
      endIndex == startIndex + perPage
  IN Slice(list, startIndex, endIndex)

\* pageItems of renderPage
PageItems(list, page, perPage) ==
  LET startIndex == (page - 1) * perPage
      endIndex == startIndex + perPage
  IN Slice(list, startIndex, endIndex)

\* Math.ceil(n / perPage) for n >= 0 and perPage # 0
TotalPages(n, perPage) ==
  IF perPage > 0 THEN (n + perPage - 1) \div perPage
  ELSE 0 - (n \div (0 - perPage))

(* ---------------- Renderer ---------------- *)
ToLower(c) == IF c >= 65 /\ c <= 90 THEN c + 32 ELSE c

\* replace(/\s+/g, '-'): every run of white space becomes one hyphen
Hyphenate(t) ==
  LET Kept(i) == ~IsSpace(t[i]) \/ i = 1 \/ ~IsSpace(t[i - 1])
      kept == SelectSeq([i \in 1..Len(t) |-> i], Kept)
  IN [j \in 1..Len(kept) |-> IF IsSpace(t[kept[j]]) THEN 45 ELSE t[kept[j]]]

\* cat.toLowerCase().replace(/\s+/g, '-')
categoryToSlug(cat) == Hyphenate([i \in 1..Len(cat) |-> ToLower(cat[i])])

UncategorisedText == <<85, 110, 99, 97, 116, 101, 103, 111, 114, 105, 115, 101, 100>>
BadgePrefix == <<98, 97, 100, 103, 101, 45>>

\* `${value}` of a text or number value
Interpolated(v) == IF IsText(v) THEN v ELSE DecText(v[2])

\* categoryToSlug(item.category || 'Uncategorised') throws a TypeError: the
\* category is truthy and has no toLowerCase
CardThrows(item) == Truthy(item.category) /\ ~IsText(item.category)

\* the card render builds for one item
Card(item) ==
  [title |-> item.title,
   pubDate |-> item.pubDate,
   district |-> Interpolated(item.district),
   badgeClass |-> BadgePrefix \o categoryToSlug(IF Truthy(item.category) THEN item.category
                                                  ELSE UncategorisedText),
   label |-> Interpolated(item.category)]

NoContent == [message |-> "", cards |-> << >>]
NoMatchMessage == "No news articles match the selected filters."

\* content of the card container after render(list)
render(list) ==
  IF Len(list) = 0 THEN [message |-> NoMatchMessage, cards |-> << >>]
  ELSE [message |-> "", cards |-> [i \in 1..Len(list) |-> Card(list[i])]]

\* render(list) throws while building a card
RenderThrows(list) == \E i \in DOMAIN list : CardThrows(list[i])

\* content of the card container when render(list) throws: the cards appended
\* before the item that throws
RenderedBeforeThrow(list) ==
  LET bad == CHOOSE i \in DOMAIN list :
                CardThrows(list[i]) /\ \A j \in 1..(i - 1) : ~CardThrows(list[j])
  IN [message |-> "", cards |-> [i \in 1..(bad - 1) |-> Card(list[i])]]

\* buttons are left out only when there is no page at all
renderPaginationSinglePage(list, perPage, page) ==
  LET totalPages == TotalPages(Len(list), perPage)
  IN IF totalPages < 1 THEN << >>
     ELSE [i \in 1..totalPages |-> [label |-> i, active |-> i = page]]

\* buttons of the pagination container after renderPagination: one per page,
\* each with its active mark
renderPagination(list, perPage, page) ==
  LET totalPages == TotalPages(Len(list), perPage)
  IN IF totalPages <= 1 THEN << >>
     ELSE [i \in 1..totalPages |-> [label |-> i, active |-> i = page]]

\* message of the error caught by the promise chain
ErrorMessage(kind) ==
  CASE kind = "network" -> "Error loading news: Failed to fetch"
    [] kind = "status" -> "Error loading news: Failed to load news data"
    [] kind = "json" -> "Error loading news: Unexpected token in JSON"
    [] kind = "null" -> "Error loading news: Cannot read properties of null"
    [] kind = "render" -> "Error loading news: cat.toLowerCase is not a function"

FailureKinds == {"network", "status", "json"}

\* Array.from(new Set(all.map(s => s.district).filter(d => !!d))).sort()
Districts(all) ==
  LET found == {all[i].district : i \in DOMAIN all} \ {Empty}
      rank(d) == Cardinality({e \in found : StrLess(e, d)})
  IN [i \in 1..Cardinality(found) |-> CHOOSE d \in found : rank(d) = i - 1]

(* ---------------- state ---------------- *)
VARIABLES
  phase,            \* "pending", "loaded" or "failed": outcome of the promise chain
  stories,          \* the full collection
  filteredStories,  \* the filtered set
  currentPage,
  itemsPerPage,
  startInput,       \* value of #start-date
  endInput,         \* value of #end-date
  categorySelect,   \* value of #category
  districtSelect,   \* value of #district
  itemsSelect,      \* value of #items-per-page
  districtOptions,  \* options appended to #district
  listeners,        \* TRUE once initialiseFilters has registered the handlers
  container,        \* content of #news-container
  pagination,       \* buttons of #pagination
  fetches,          \* number of fetch calls issued
  now,              \* the system clock
  tz,               \* the viewer's time zone
  lastEvent         \* the event handled last

domInputs == <<startInput, endInput, categorySelect, districtSelect>>
environment == <<fetches, now, tz>>
vars == <<phase, stories, filteredStories, currentPage, itemsPerPage, startInput, endInput,
          categorySelect, districtSelect, itemsSelect, districtOptions, listeners,
          container, pagination, fetches, now, tz, lastEvent>>

\* the handlers are registered before the fetch has settled
InitListening ==
  /\ phase = "pending"
  /\ stories = << >>
  /\ filteredStories = << >>
  /\ currentPage = 1
  /\ itemsPerPage = DefaultItemsPerPage
  /\ startInput = Empty
  /\ endInput = Empty
  /\ categorySelect = AllText
  /\ districtSelect = AllText
  /\ itemsSelect = FiftyText
  /\ districtOptions = << >>
  /\ listeners = TRUE
  /\ container = NoContent
  /\ pagination = << >>
  /\ fetches = 1
  /\ now = ClockStart
  /\ tz \in Zones
  /\ lastEvent = "DOMContentLoaded"

\* the DOMContentLoaded callback has run: state is declared and the fetch is issued
Init ==
  /\ phase = "pending"
  /\ stories = << >>
  /\ filteredStories = << >>
  /\ currentPage = 1
  /\ itemsPerPage = DefaultItemsPerPage
  /\ startInput = Empty
  /\ endInput = Empty
  /\ categorySelect = AllText
  /\ districtSelect = AllText
  /\ itemsSelect = FiftyText
  /\ districtOptions = << >>
  /\ listeners = FALSE
  /\ container = NoContent
  /\ pagination = << >>
  /\ fetches = 1
  /\ now = ClockStart
  /\ tz \in Zones
  /\ lastEvent = "DOMContentLoaded"

(* ---------------- functions of the script ---------------- *)
\* renderPage(page): render(pageItems), then renderPagination(); when render
\* throws, renderPagination is not reached
renderPage(page) ==
  LET pageItems == PageItems(filteredStories', page, itemsPerPage')
  IN IF RenderThrows(pageItems)
       THEN /\ container' = RenderedBeforeThrow(pageItems)
            /\ pagination' = pagination
       ELSE /\ container' = render(pageItems)
            /\ pagination' = renderPagination(filteredStories', itemsPerPage', currentPage')

\* applyFilters(): reads the four inputs as they stand, filters, shows page 1
applyFilters ==
  /\ filteredStories' = Filtered(stories', startInput', endInput', categorySelect',
                                 districtSelect', tz)
  /\ currentPage' = 1
  /\ renderPage(currentPage')

\* no handler is registered for the event: the script does nothing
NoHandler == UNCHANGED <<filteredStories, currentPage, itemsPerPage, container, pagination>>

(* ---------------- the load ---------------- *)
\* the fetch resolves with a sequence of records: initialiseFilters, applyFilters;
\* when the first render throws, the catch callback replaces the cards by the message
FetchResolves(data) ==
  /\ phase = "pending"
  /\ stories' = data
  /\ districtOptions' = Districts(data)
  /\ itemsSelect' = FiftyText
  /\ listeners' = TRUE
  /\ UNCHANGED <<domInputs, itemsPerPage, environment>>
  /\ IF RenderThrows(PageItems(Filtered(data, startInput, endInput, categorySelect,
                                         districtSelect, tz), 1, itemsPerPage))
       THEN /\ phase' = "failed"
            /\ filteredStories' = Filtered(data, startInput, endInput, categorySelect,
                                           districtSelect, tz)
            /\ currentPage' = 1
            /\ container' = [message |-> ErrorMessage("render"), cards |-> << >>]
            /\ pagination' = pagination
            /\ lastEvent' = "loadError"
       ELSE /\ phase' = "loaded"
            /\ applyFilters
            /\ lastEvent' = "load"

\* the document parses but holds a null record: stories.map throws in
\* initialiseFilters before anything else is done, and the catch callback runs
FetchThrows(data) ==
  /\ phase = "pending"
  /\ phase' = "failed"
  /\ stories' = data
  /\ container' = [message |-> ErrorMessage("null"), cards |-> << >>]
  /\ UNCHANGED <<filteredStories, currentPage, itemsPerPage, domInputs, itemsSelect,
                 districtOptions, listeners, pagination, environment>>
  /\ lastEvent' = "loadError"

\* the failure is reported but the handlers are registered all the same
FetchFailsButListens(kind) ==
  /\ phase = "pending"
  /\ phase' = "failed"
  /\ container' = [message |-> ErrorMessage(kind), cards |-> << >>]
  /\ listeners' = TRUE
  /\ UNCHANGED <<stories, filteredStories, currentPage, itemsPerPage, domInputs, itemsSelect,
                 districtOptions, pagination, environment>>
  /\ lastEvent' = "loadError"

\* the fetch rejects, the status is not ok, or the body is not JSON: catch callback
FetchFails(kind) ==
  /\ phase = "pending"
  /\ phase' = "failed"
  /\ container' = [message |-> ErrorMessage(kind), cards |-> << >>]
  /\ UNCHANGED <<stories, filteredStories, currentPage, itemsPerPage, domInputs, itemsSelect,
                 districtOptions, listeners, pagination, environment>>
  /\ lastEvent' = "loadError"

(* ---------------- user events ---------------- *)
\* change of #start-date
StartChange(v) ==
  /\ v # startInput
  /\ startInput' = v
  /\ UNCHANGED <<phase, stories, endInput, categorySelect, districtSelect, itemsSelect,
                 districtOptions, listeners, environment>>
  /\ IF listeners THEN UNCHANGED itemsPerPage /\ applyFilters ELSE NoHandler
  /\ lastEvent' = "start"

\* change of #end-date
EndChange(v) ==
  /\ v # endInput
  /\ endInput' = v
  /\ UNCHANGED <<phase, stories, startInput, categorySelect, districtSelect, itemsSelect,
                 districtOptions, listeners, environment>>
  /\ IF listeners THEN UNCHANGED itemsPerPage /\ applyFilters ELSE NoHandler
  /\ lastEvent' = "end"

\* change of #category
CategoryChange(v) ==
  /\ v # categorySelect
  /\ categorySelect' = v
  /\ UNCHANGED <<phase, stories, startInput, endInput, districtSelect, itemsSelect,
                 districtOptions, listeners, environment>>
  /\ IF listeners THEN UNCHANGED itemsPerPage /\ applyFilters ELSE NoHandler
  /\ lastEvent' = "category"

\* change of #district
DistrictChange(v) ==
  /\ v # districtSelect
  /\ districtSelect' = v
  /\ UNCHANGED <<phase, stories, startInput, endInput, categorySelect, itemsSelect,
                 districtOptions, listeners, environment>>
  /\ IF listeners THEN UNCHANGED itemsPerPage /\ applyFilters ELSE NoHandler
  /\ lastEvent' = "district"

\* the items-per-page handler re-pages the filtered set it finds, without filtering
ItemsChangeRepagesOnly(v) ==
  /\ v # itemsSelect
  /\ itemsSelect' = v
  /\ UNCHANGED <<phase, stories, domInputs, districtOptions, listeners, environment>>
  /\ IF listeners
       THEN /\ itemsPerPage' = ParseItemsPerPage(itemsSelect')
            /\ filteredStories' = filteredStories
            /\ currentPage' = 1
            /\ renderPage(currentPage')
       ELSE NoHandler
  /\ lastEvent' = "items"

\* change of #items-per-page
ItemsChange(v) ==
  /\ v # itemsSelect
  /\ itemsSelect' = v
  /\ UNCHANGED <<phase, stories, domInputs, districtOptions, listeners, environment>>
  /\ IF listeners
       THEN /\ itemsPerPage' = ParseItemsPerPage(itemsSelect')
            /\ applyFilters
       ELSE NoHandler
  /\ lastEvent' = "items"

\* Today without the cap of 50
TodayClickUncapped ==
  /\ UNCHANGED <<phase, stories, domInputs, itemsSelect, districtOptions, listeners,
                 environment>>
  /\ IF listeners
       THEN /\ filteredStories' = TodayStories(stories, now)
            /\ itemsPerPage' = DefaultItemsPerPage
            /\ currentPage' = 1
            /\ renderPage(currentPage')
       ELSE NoHandler
  /\ lastEvent' = "today"

\* click on #today-btn
TodayClick ==
  /\ UNCHANGED <<phase, stories, domInputs, itemsSelect, districtOptions, listeners,
                 environment>>
  /\ IF listeners
       THEN /\ filteredStories' = Slice(TodayStories(stories, now), 0, TodayLimit)
            /\ itemsPerPage' = DefaultItemsPerPage
            /\ currentPage' = 1
            /\ renderPage(currentPage')
       ELSE NoHandler
  /\ lastEvent' = "today"

\* Reset that leaves the end date as it is
ResetClickKeepsEnd ==
  /\ UNCHANGED <<phase, stories, districtOptions, listeners, environment>>
  /\ IF listeners
       THEN /\ startInput' = Empty
            /\ endInput' = endInput
            /\ categorySelect' = AllText
            /\ districtSelect' = AllText
            /\ itemsSelect' = FiftyText
            /\ itemsPerPage' = DefaultItemsPerPage
            /\ applyFilters
       ELSE UNCHANGED <<domInputs, itemsSelect>> /\ NoHandler
  /\ lastEvent' = "reset"

\* click on #reset-btn
ResetClick ==
  /\ UNCHANGED <<phase, stories, districtOptions, listeners, environment>>
  /\ IF listeners
       THEN /\ startInput' = Empty
            /\ endInput' = Empty
            /\ categorySelect' = AllText
            /\ districtSelect' = AllText
            /\ itemsSelect' = FiftyText
            /\ itemsPerPage' = DefaultItemsPerPage
            /\ applyFilters
       ELSE UNCHANGED <<domInputs, itemsSelect>> /\ NoHandler
  /\ lastEvent' = "reset"

\* the page button shows its page but does not record it as the current one
PageClickKeepsPage(i) ==
  /\ i \in DOMAIN pagination
  /\ currentPage' = currentPage
  /\ UNCHANGED <<phase, stories, filteredStories, itemsPerPage, domInputs, itemsSelect,
                 districtOptions, listeners, environment>>
  /\ renderPage(pagination[i].label)
  /\ lastEvent' = "page"

\* click on the page button labelled i
PageClick(i) ==
  /\ i \in DOMAIN pagination
  /\ currentPage' = pagination[i].label
  /\ UNCHANGED <<phase, stories, filteredStories, itemsPerPage, domInputs, itemsSelect,
                 districtOptions, listeners, environment>>
  /\ renderPage(currentPage')
  /\ lastEvent' = "page"

\* the system clock advances
Tick ==
  /\ now < ClockStart + MaxTicks * ClockStep
  /\ now' = now + ClockStep
  /\ UNCHANGED <<phase, stories, filteredStories, currentPage, itemsPerPage, domInputs,
                 itemsSelect, districtOptions, listeners, container, pagination, fetches, tz>>
  /\ lastEvent' = "tick"

Next ==
  \/ \E data \in Payloads : FetchResolves(data)
  \/ \E data \in NullPayloads : FetchThrows(data)
  \/ \E kind \in FailureKinds : FetchFails(kind)
  \/ \E v \in DateTexts : StartChange(v)
  \/ \E v \in DateTexts : EndChange(v)
  \/ \E v \in CategoryOptions : CategoryChange(v)
  \/ \E v \in {AllText} \cup Range(districtOptions) : DistrictChange(v)
  \/ \E v \in ItemsTexts : ItemsChange(v)
  \/ TodayClick
  \/ ResetClick
  \/ \E i \in 1..Len(pagination) : PageClick(i)
  \/ Tick

\* every payload conforms to the input format: text fields only
Spec == Init /\ [][Next]_vars

\* the load may also deliver a record whose category is not text
NextMalformed ==
  \/ Next
  \/ \E data \in MalformedPayloads : FetchResolves(data)

SpecMalformed == Init /\ [][NextMalformed]_vars

(* ---------------- properties ---------------- *)
\* events whose handler is applyFilters or ends by calling it
FilterEvents == {"load", "start", "end", "category", "district", "items", "reset"}

\* the last event was handled by the script and ran applyFilters
FilterPassRan == listeners /\ lastEvent \in FilterEvents

\* ISO text of the calendar day after the date text d
DayAfterText(d) == YearMonthText \o TwoDigits((d[9] - 48) * 10 + (d[10] - 48) + 1)

\* the viewer's local calendar date as ISO text
LocalDateText == ISODate(LocalTime(tz, now))

\* C1: with only the end date D set, the filtered set is exactly the stories
\* whose pubDate is lexically below the ISO date of the calendar day after D,
\* in every time zone.
C1_EndDateInclusive ==
  (FilterPassRan /\ endInput # Empty /\ startInput = Empty
     /\ categorySelect = AllText /\ districtSelect = AllText)
  => LET Before(s) == StrLess(s.pubDate, DayAfterText(endInput))
     IN filteredStories = SelectSeq(stories, Before)

\* C2: after a Today click the filtered set holds only stories whose pubDate
\* starts with the viewer's local calendar date.
C2_TodayIsLocalDate ==
  (listeners /\ lastEvent = "today")
  => \A i \in DOMAIN filteredStories : StartsWith(filteredStories[i].pubDate, LocalDateText)

\* C3: a change of items-per-page sets currentPage to 1 and shows the first
\* page of the filtered set that was shown before the change.
C3_ItemsChangeKeepsFilteredSet ==
  [][(listeners /\ lastEvent' = "items")
       => /\ currentPage' = 1
          /\ filteredStories' = filteredStories
          /\ container' = render(PageItems(filteredStories, 1, itemsPerPage'))]_vars

\* C4: itemsPerPage is a positive integer in every reachable state.
C4_ItemsPerPagePositive == itemsPerPage >= 1

\* C5: the result of applyFilters is the intersection of the results of each
\* predicate applied alone, in the order of the full collection; a predicate
\* whose input is empty or "All" removes no story.
C5_AndSemantics ==
  FilterPassRan
  => LET byStart == Filtered(stories, startInput, Empty, AllText, AllText, tz)
         byEnd == Filtered(stories, Empty, endInput, AllText, AllText, tz)
         byCategory == Filtered(stories, Empty, Empty, categorySelect, AllText, tz)
         byDistrict == Filtered(stories, Empty, Empty, AllText, districtSelect, tz)
         inAll == Range(byStart) \cap Range(byEnd) \cap Range(byCategory) \cap Range(byDistrict)
         InAll(s) == s \in inAll
     IN /\ filteredStories = SelectSeq(stories, InAll)
        /\ startInput = Empty => byStart = stories
        /\ endInput = Empty => byEnd = stories
        /\ categorySelect = AllText => byCategory = stories
        /\ districtSelect = AllText => byDistrict = stories

\* a category and a district filter are both active, some story passes both,
\* some passes only the category filter and some only the district filter
C5_Witness ==
  /\ FilterPassRan
  /\ categorySelect = GovernanceText
  /\ districtSelect = LucknowText
  /\ filteredStories # << >>
  /\ \E i \in DOMAIN stories :
        stories[i].category = GovernanceText /\ stories[i].district # LucknowText
  /\ \E i \in DOMAIN stories :
        stories[i].category # GovernanceText /\ stories[i].district = LucknowText

\* C6: with only the start date D set, the filtered set holds exactly the
\* stories with pubDate >= D under string comparison, none lost, none extra.
C6_StartDateFilter ==
  (FilterPassRan /\ startInput # Empty /\ endInput = Empty
     /\ categorySelect = AllText /\ districtSelect = AllText)
  => LET NotBefore(s) == ~StrLess(s.pubDate, startInput)
     IN /\ \A i \in DOMAIN filteredStories : NotBefore(filteredStories[i])
        /\ filteredStories = SelectSeq(stories, NotBefore)

\* the start date alone is set and it removes some stories and keeps others
C6_Witness ==
  /\ FilterPassRan /\ startInput # Empty /\ endInput = Empty
  /\ categorySelect = AllText /\ districtSelect = AllText
  /\ filteredStories # << >>
  /\ Len(filteredStories) < Len(stories)

\* C7: one Reset yields default inputs, itemsPerPage 50, currentPage 1 and the
\* whole collection as filtered set with its first page shown; a second Reset
\* right after it changes nothing.
C7_ResetTotalIdempotent ==
  (listeners /\ lastEvent = "reset")
  => /\ startInput = Empty /\ endInput = Empty
     /\ categorySelect = AllText /\ districtSelect = AllText
     /\ itemsSelect = FiftyText
     /\ itemsPerPage = 50 /\ currentPage = 1
     /\ filteredStories = stories
     /\ container = render(SubSeq(stories, 1, Min(50, Len(stories))))
     /\ ~ENABLED (ResetClick /\ vars' # vars)

\* Reset has run on a collection of more than two pages
C7_Witness ==
  /\ listeners /\ lastEvent = "reset"
  /\ Len(stories) > 100
  /\ Len(container.cards) = 50

RECURSIVE ConcatPages(_, _, _)
\* pages 1..t of a list, one after the other
ConcatPages(list, perPage, t) ==
  IF t = 0 THEN << >>
  ELSE ConcatPages(list, perPage, t - 1) \o PageItems(list, t, perPage)

\* C8: page p shows the items at indices [(p-1)*k, min(p*k, n)); there are
\* ceiling(n/k) pages; pages 1..ceiling(n/k) partition the filtered set; a page
\* beyond the last is empty.
C8_PaginatorSlicing ==
  (listeners /\ itemsPerPage >= 1)
  => LET n == Len(filteredStories)
         k == itemsPerPage
         ceiling == CHOOSE t \in 0..n : t * k >= n /\ (t = 0 \/ (t - 1) * k < n)
         Expected(p) == [j \in 1..(Min(p * k, n) - Min((p - 1) * k, n)) |->
                            filteredStories[(p - 1) * k + j]]
     IN /\ TotalPages(n, k) = ceiling
        /\ \A p \in 1..(ceiling + 2) : PageItems(filteredStories, p, k) = Expected(p)
        /\ \A p \in (ceiling + 1)..(ceiling + 2) : PageItems(filteredStories, p, k) = << >>
        /\ ConcatPages(filteredStories, k, ceiling) = filteredStories
        /\ container = render(Expected(currentPage))
        /\ Len(pagination) = IF ceiling <= 1 THEN 0 ELSE ceiling

\* the third and last page of a filtered set of more than 100 items at 50 per
\* page is shown and holds the items after the first 100
C8_Witness ==
  /\ listeners /\ itemsPerPage = 50 /\ currentPage = 3
  /\ Len(filteredStories) > 100
  /\ Len(pagination) = 3
  /\ Len(container.cards) = Len(filteredStories) - 100

\* C9: a Today click leaves the filtered set equal to the first min(50, m) of
\* the m stories of today's (the viewer's local) date, sets itemsPerPage to 50
\* and currentPage to 1, and leaves the four filter inputs unchanged.
C9_TodayPostState ==
  [][(listeners /\ lastEvent' = "today")
       => LET IsLocalToday(s) == StartsWith(s.pubDate, LocalDateText)
              matching == SelectSeq(stories, IsLocalToday)
          IN /\ filteredStories' = SubSeq(matching, 1, Min(50, Len(matching)))
             /\ itemsPerPage' = 50
             /\ currentPage' = 1
             /\ UNCHANGED domInputs]_vars

\* The part of C9 that does not depend on which date is today's: at most 50
\* stories, all of one date, in the order of the collection; page size 50,
\* page 1, inputs untouched.
TodayCapAndFrame ==
  [][(listeners /\ lastEvent' = "today")
       => LET IsUTCToday(s) == StartsWith(s.pubDate, ISODate(now))
              matching == SelectSeq(stories, IsUTCToday)
          IN /\ filteredStories' = SubSeq(matching, 1, Min(50, Len(matching)))
             /\ itemsPerPage' = 50
             /\ currentPage' = 1
             /\ UNCHANGED domInputs]_vars

ErrorMessages == {ErrorMessage(kind) : kind \in FailureKinds \cup {"null"}}

\* C10: after a failed load the card container holds one error message and no
\* card, there is no pagination button, no second fetch is issued, and no later
\* event changes the display, the filtered set, the page or the page size.
C10_LoadFailureTerminal ==
  /\ [](phase = "failed"
          => /\ container.message \in ErrorMessages
             /\ container.cards = << >>
             /\ pagination = << >>
             /\ fetches = 1)
  /\ [][phase = "failed"
          => /\ phase' = "failed"
             /\ UNCHANGED <<container, pagination, filteredStories, currentPage,
                            itemsPerPage, fetches>>]_vars

\* the load failed on a bad status and the user has since changed an input
\* and clicked Today
C10_Witness ==
  /\ phase = "failed"
  /\ container.message = ErrorMessage("status")
  /\ startInput # Empty
  /\ lastEvent = "today"

\* C11: whenever the load has ended in the error branch, no option has been
\* added to the district selection, no listener is registered and no story
\* card is shown.
C11_NoPartialStateOnFailure ==
  phase = "failed"
  => /\ districtOptions = << >>
     /\ ~listeners
     /\ container.cards = << >>

\* the items of the page on display
ShownItems == PageItems(filteredStories, currentPage, itemsPerPage)

\* C12: a story without category is shown as a card with badge class
\* badge-uncategorised and the fallback label, and a story without district is
\* shown with a fallback label instead of the absent value.
C12_MissingFieldFallbacks ==
  (listeners /\ phase = "loaded")
  => /\ Len(container.cards) = Len(ShownItems)
     /\ \A i \in DOMAIN container.cards :
          /\ ShownItems[i].category = Empty
               => /\ container.cards[i].badgeClass = BadgePrefix \o categoryToSlug(UncategorisedText)
                  /\ container.cards[i].label = UncategorisedText
          /\ ShownItems[i].district = Empty
               => container.cards[i].district # Empty

\* The part of C12 that the code does provide: the page is rendered, one card
\* per item, and a story without category gets the class badge-uncategorised.
MissingCategoryBadgeClass ==
  (listeners /\ phase = "loaded")
  => /\ Len(container.cards) = Len(ShownItems)
     /\ \A i \in DOMAIN container.cards :
          ShownItems[i].category = Empty
            => container.cards[i].badgeClass =
                 <<98, 97, 100, 103, 101, 45, 117, 110, 99, 97, 116, 101, 103, 111, 114, 105, 115, 101, 100>>

RECURSIVE MatchEnd(_, _, _, _, _)
\* the position in all just after the earliest in-order match of sub[lo..hi]
\* that starts at or after position from; Len(all) + 2 when there is none
MatchEnd(sub, all, lo, hi, from) ==
  IF lo > hi THEN from
  ELSE IF lo = hi
    THEN LET hits == {j \in from..Len(all) : all[j] = sub[lo]}
         IN IF hits = {} THEN Len(all) + 2
            ELSE (CHOOSE j \in hits : \A k \in hits : j <= k) + 1
  ELSE LET mid == (lo + hi) \div 2
           next == MatchEnd(sub, all, lo, mid, from)
       IN IF next > Len(all) + 1 THEN Len(all) + 2
          ELSE MatchEnd(sub, all, mid + 1, hi, next)

\* sub is all with some elements left out, the others in their order
IsSubsequence(sub, all) == sub = all \/ MatchEnd(sub, all, 1, Len(sub), 1) <= Len(all) + 1

\* C13: after a successful load no action changes the full collection, and the
\* filtered set is always an order-preserving subsequence of it.
C13_CollectionReadOnly ==
  /\ [][phase = "loaded" => stories' = stories]_vars
  /\ [](IsSubsequence(filteredStories, stories))

\* Today has selected several stories that are not next to each other in the
\* collection
C13_Witness ==
  /\ phase = "loaded" /\ lastEvent = "today"
  /\ Len(filteredStories) >= 2
  /\ Len(filteredStories) < Len(stories)
  /\ filteredStories # SubSeq(stories, 1, Len(filteredStories))

\* the Filter Engine's result for the collection and the inputs as they stand
EngineResult == Filtered(stories, startInput, endInput, categorySelect, districtSelect, tz)

\* C14 as stated: after every handled user action other than a page-button
\* click, Today included, the filtered set is the Filter Engine's result for
\* the inputs as they stand.
C14_EveryActionRunsPipeline ==
  (listeners /\ lastEvent \in {"start", "end", "category", "district", "items", "today", "reset"})
  => filteredStories = EngineResult

\* C14 amended: after every handled start-date, end-date, category, district
\* or items-per-page change and every Reset click the filtered set is the
\* Filter Engine's result for the inputs as they stand; Today clicks and
\* page-button clicks do not run the Filter Engine.
C14_FilterActionsRunPipeline ==
  /\ [](listeners /\ lastEvent \in {"start", "end", "category", "district", "items", "reset"}
          => filteredStories = EngineResult)
  /\ [][listeners /\ lastEvent' = "page" => filteredStories' = filteredStories]_vars

\* an items-per-page change has been handled while a filter is active that
\* keeps some stories and removes others
C14_Witness ==
  /\ listeners /\ lastEvent = "items"
  /\ startInput # Empty
  /\ filteredStories # << >>
  /\ Len(filteredStories) < Len(stories)

\* C15: a page-button click sets currentPage to the number of the button
\* clicked and displays the slice of that page; the filtered set, itemsPerPage,
\* the full collection and the filter inputs stay as they are.
C15_PageClickOnlyChangesPage ==
  [][lastEvent' = "page"
       => \E i \in DOMAIN pagination :
            /\ pagination[i].label = i
            /\ currentPage' = i
            /\ container' = render(PageItems(filteredStories, i, itemsPerPage))
            /\ UNCHANGED <<filteredStories, itemsPerPage, stories, domInputs, itemsSelect>>]_vars

\* the second page of a filtered set has been opened by its button while a
\* start date is set
C15_Witness ==
  /\ lastEvent = "page" /\ currentPage = 2
  /\ startInput # Empty
  /\ Len(filteredStories) < Len(stories)
  /\ container.cards # << >>

\* ceiling(n / k) for n >= 0 and k # 0, by its defining inequalities
Ceiling(n, k) ==
  CHOOSE c \in (0 - n)..n :
    IF k > 0 THEN c * k >= n /\ (c - 1) * k < n
    ELSE c * k <= n /\ (c - 1) * k > n

\* C16: after a successful load, there is no pagination button when
\* ceiling(filteredCount / itemsPerPage) <= 1; otherwise there is one button
\* per page number 1..ceiling, and the active one is exactly the button whose
\* number is currentPage.
C16_PaginationMatchesState ==
  phase = "loaded"
  => LET total == Ceiling(Len(filteredStories), itemsPerPage)
     IN IF total <= 1 THEN pagination = << >>
        ELSE /\ Len(pagination) = total
             /\ currentPage \in 1..total
             /\ \A i \in 1..total :
                  /\ pagination[i].label = i
                  /\ pagination[i].active <=> (i = currentPage)

\* three or more buttons are shown and the second is the active one
C16_Witness ==
  /\ phase = "loaded"
  /\ Len(pagination) >= 3
  /\ currentPage = 2
  /\ pagination[2].active /\ ~pagination[1].active

\* C17: 1 <= currentPage <= max(1, ceiling(filteredCount / itemsPerPage)); the
\* displayed page is empty only when the filtered set is empty, and the
\* empty-result message is shown exactly then.
C17_CurrentPageInRange ==
  phase = "loaded"
  => /\ currentPage >= 1
     /\ currentPage <= Max(1, Ceiling(Len(filteredStories), itemsPerPage))
     /\ (container.cards = << >>) <=> (filteredStories = << >>)
     /\ (container.message = NoMatchMessage) <=> (filteredStories = << >>)

\* C18: after a successful load itemsPerPage is the integer shown in the
\* items-per-page selection element, 50 when that value is not a usable number.
C18_PageSizeAgreesWithSelector ==
  phase = "loaded" => itemsPerPage = ParseItemsPerPage(itemsSelect)

\* C19: while the fetch is pending nothing has been rendered, no handler is
\* registered and no user event changes filteredStories, currentPage,
\* itemsPerPage or the display; the step that ends a successful load registers
\* the handlers and shows page 1 of the filter result over the loaded collection.
C19_NoEffectBeforeLoad ==
  /\ [](phase = "pending"
          => /\ ~listeners
             /\ container = NoContent /\ pagination = << >>
             /\ filteredStories = << >> /\ currentPage = 1
             /\ itemsPerPage = DefaultItemsPerPage)
  /\ [][(phase = "pending" /\ phase' = "pending")
          => UNCHANGED <<filteredStories, currentPage, itemsPerPage, container, pagination>>]_vars
  /\ [][(phase = "pending" /\ phase' = "loaded")
          => /\ listeners'
             /\ filteredStories' = Filtered(stories', startInput, endInput, categorySelect,
                                            districtSelect, tz)
             /\ currentPage' = 1
             /\ container' = render(PageItems(filteredStories', 1, DefaultItemsPerPage))]_vars

\* the fetch is still pending after the user has set a start date and
\* clicked Today
C19_Witness ==
  /\ phase = "pending"
  /\ lastEvent = "today"
  /\ startInput # Empty

\* C20: right after a handled Today click the filtered set has at most 50
\* items, itemsPerPage is 50 and there is no pagination button; a button
\* appears only in a step that changes the filtered set or the page size.
C20_TodayShowsNoPagination ==
  /\ [](listeners /\ lastEvent = "today"
          => /\ Len(filteredStories) <= 50
             /\ itemsPerPage = 50
             /\ Ceiling(Len(filteredStories), itemsPerPage) <= 1
             /\ pagination = << >>)
  /\ [][(listeners /\ lastEvent = "today" /\ pagination' # << >>)
          => (filteredStories' # filteredStories \/ itemsPerPage' # itemsPerPage)]_vars

\* Today has cut more than 50 stories of the day down to 50
C20_Witness ==
  /\ listeners /\ lastEvent = "today"
  /\ Len(filteredStories) = 50
  /\ Len(TodayStories(stories, now)) > 50
  /\ pagination = << >>
====
